---------------------------- MODULE Spec2Model ----------------------------
(***************************************************************************)
(* A model of prototypes/citizen-kane/upstream.go: the generator that     *)
(* reads the UPSTREAM manifest and prints a shell script of git steps.    *)
(*                                                                         *)
(* A Go string is modelled as the sequence of its characters (each a      *)
(* one-character TLA+ string), so that path.Clean, path.Join, slicing and *)
(* comparison with "" and "/" are computed and not assumed.               *)
(***************************************************************************)
EXTENDS Naturals, Sequences, FiniteSets

VARIABLES
    pc,       \* position of main(): the statement executed next
    pool,     \* the strings crypto/rand may make RandomString() return
    upstream, \* the decoded content of the file ./UPSTREAM (a list of sources)
    buildid,  \* main's local buildid
    m,        \* main's local m.Sources
    si,       \* index of the source a loop of main is at (1-based)
    mi,       \* index of the mapping the inner loop is at (1-based; mapid = mi - 1)
    src,      \* the loop variable of the "Apply defaults" loop: a copy of m[si]
    out,      \* the lines written to standard output so far
    stderr,   \* the diagnostics log.Fatal wrote to standard error
    refs,     \* the branches of the local repository and their commits
    head,     \* the branch that is checked out
    outside,  \* the files a tree filter moved out of its checkout
    snap,     \* the branches as they were when the shell began its last line
    layers,   \* the trees merged into the destination branch so far
    sh,       \* the shell running the emitted script: "off", "run", "exit", "end"
    errexit,  \* the shell's -e option
    ip,       \* the line of the script the shell is at
    sub,      \* the sub-command of that line the shell is at
    nfail,    \* how many sub-commands have failed in this run of the script
    ran       \* the sub-commands the shell has executed, with their outcome

vars == <<pc, pool, upstream, buildid, m, si, mi, src, out, stderr, refs, head, outside, snap, layers, sh, errexit, ip, sub, nfail, ran>>

genvars == <<pc, pool, upstream, buildid, m, si, mi, src, out, stderr>>

gitvars == <<refs, head, outside, snap, layers>>

shvars == <<sh, errexit, ip, sub, nfail, ran, refs, head, outside, snap, layers>>

--------------------------------------------------------------------------
(* Bounds of the model *)

MaxSources == 2

MaxMaps == 2

MaxFail == 1

PathSources == 1

MaxSegs == 4

(* Program constants *)

IdBytes == 32

BuildIdLen == 4

TmpLen == 8

--------------------------------------------------------------------------
(* String literals of the source, as character sequences *)

Empty == <<>>

Slash == <<"/">>

Dot == <<".">>

DotDot == <<".", ".">>

Master == <<"m", "a", "s", "t", "e", "r">>

CitizenKane == <<"c", "i", "t", "i", "z", "e", "n", "k", "a", "n", "e">>

BaseDir == <<"b", "a", "s", "e">>

MapDir == <<"m", "a", "p">>

DstDir == <<"d", "s", "t">>

Digits == <<"0", "1", "2", "3", "4", "5", "6", "7", "8", "9">>

--------------------------------------------------------------------------
(* Library functions the program calls *)

(* fmt.Sprintf("%d", n): the decimal digits of n *)
RECURSIVE Itoa(_)
Itoa(n) ==
    IF n < 10 THEN <<Digits[n + 1]>>
    ELSE Itoa(n \div 10) \o <<Digits[(n % 10) + 1]>>

(* the elements of a path between its separators: "a//b" is <<"a", "", "b">> *)
RECURSIVE Split(_)
Split(s) ==
    IF \A k \in 1..Len(s) : s[k] # "/" THEN <<s>>
    ELSE LET k == CHOOSE k \in 1..Len(s) :
                      s[k] = "/" /\ \A h \in 1..(k - 1) : s[h] # "/"
         IN <<SubSeq(s, 1, k - 1)>> \o Split(SubSeq(s, k + 1, Len(s)))

(* elements joined with one separator between each two *)
RECURSIVE JoinSlash(_)
JoinSlash(segs) ==
    IF segs = <<>> THEN <<>>
    ELSE IF Len(segs) = 1 THEN segs[1]
    ELSE segs[1] \o Slash \o JoinSlash(Tail(segs))

(* path.Clean's pass over the elements: empty and "." elements are dropped, *)
(* ".." removes the element before it, is dropped at the root of a rooted   *)
(* path and is kept at the start of a relative one.                         *)
RECURSIVE CleanElems(_, _, _)
CleanElems(segs, rooted, kept) ==
    IF segs = <<>> THEN kept
    ELSE LET e == Head(segs)
             rest == Tail(segs)
         IN IF e = Empty \/ e = Dot THEN CleanElems(rest, rooted, kept)
            ELSE IF e = DotDot
                 THEN IF kept # <<>> /\ kept[Len(kept)] # DotDot
                      THEN CleanElems(rest, rooted, SubSeq(kept, 1, Len(kept) - 1))
                      ELSE IF rooted THEN CleanElems(rest, rooted, kept)
                           ELSE CleanElems(rest, rooted, Append(kept, e))
                 ELSE CleanElems(rest, rooted, Append(kept, e))

(* a cleaning that forgets that a relative path with no element left is "." *)
CleanNoDot(p) ==
    IF p = Empty THEN Dot
    ELSE LET rooted == p[1] = "/"
             kept == CleanElems(Split(p), rooted, <<>>)
         IN IF rooted THEN Slash \o JoinSlash(kept) ELSE JoinSlash(kept)

(* path.Clean: the shortest equivalent path; the empty string cleans to "." *)
Clean(p) ==
    IF p = Empty THEN Dot
    ELSE LET rooted == p[1] = "/"
             kept == CleanElems(Split(p), rooted, <<>>)
         IN IF rooted THEN Slash \o JoinSlash(kept)
            ELSE IF kept = <<>> THEN Dot ELSE JoinSlash(kept)

(* path.Join: empty elements are ignored, the result is cleaned; "" if all are empty *)
Join(elems) ==
    LET given == SelectSeq(elems, LAMBDA e : e # Empty)
    IN IF given = <<>> THEN Empty ELSE Clean(JoinSlash(given))

--------------------------------------------------------------------------
(* Branch names *)

dstBranch(bid) == Join(<<CitizenKane, bid, DstDir>>)

baseBranch(s, bid) == Join(<<CitizenKane, bid, BaseDir, s.Name>>)

mapBranch(s, bid, mapid) == Join(<<CitizenKane, bid, MapDir, s.Name, Itoa(mapid)>>)

(* RandomString(): hex.EncodeToString of IdBytes random bytes; the pool holds *)
(* the strings the random source can produce in this run.                     *)
RandomString == {r \in pool : Len(r) = 2 * IdBytes}

--------------------------------------------------------------------------
(* Lines of standard output.  A line is kept as the Printf that wrote it:  *)
(* kind names the format string, lead is the first character that format   *)
(* string prints, args are the strings substituted into it, in order.      *)
(* s and j record the loop iteration that printed the line (0: none).      *)
(* The blank lines that end a paragraph of output are not kept.            *)

Line(kind, lead, args, s, j) ==
    [kind |-> kind, lead |-> lead, args |-> args, s |-> s, j |-> j]

(* "# Starting build %s" and "set -e" *)
header(bid) ==
    <<Line("header", "#", <<bid>>, 0, 0), Line("strict", "s", <<>>, 0, 0)>>

(* "# Loaded %d sources from ./UPSTREAM" *)
loaded(n) == <<Line("loaded", "#", <<Itoa(n)>>, 0, 0)>>

(* "skipping unnamed source" *)
skipNotice(s) == <<Line("skip", "s", <<>>, s, 0)>>

(* "# [%s] fetch(%s)" and "git fetch -f %s %s:%s" *)
fetch(source, bid, s) ==
    <<Line("label", "#", <<bid, source.Name>>, s, 0),
      Line("fetch", "g", <<source.Url, source.Branch, baseBranch(source, bid)>>, s, 0)>>

(* "# dupBranch(%s, %s)" and "{ git branch -D '%s' 2>/dev/null || true; } && git branch -f '%s' '%s'" *)
dupBranch(from, to, s, j) ==
    <<Line("label", "#", <<from, to>>, s, j),
      Line("dupBranch", "{", <<to, to, from>>, s, j)>>

(* "# zoomIn(%s, %s)" and "(cd $(git rev-parse --show-toplevel) && git filter-branch -f --subdirectory-filter '%s' '%s')" *)
zoomIn(branch, dir, s, j) ==
    <<Line("label", "#", <<branch, dir>>, s, j),
      Line("zoomIn", "(", <<dir, branch>>, s, j)>>

(* "# zoomOut(%s, %s)" and the tree-filter that moves the tree under dir by way of .tmp *)
zoomOut(branch, dir, tmp, s, j) ==
    <<Line("label", "#", <<branch, dir>>, s, j),
      Line("zoomOut", "(", <<tmp, tmp, dir, tmp, dir, tmp, branch>>, s, j)>>

(* the merge the other way round: the map branch merged into the         *)
(* destination preferring the destination, then the destination into it *)
mergeLayerSwapped(bottom, top, s, j) ==
    <<Line("label", "#", <<bottom, top>>, s, j),
      Line("mergeLayer", "g", <<bottom, top, top, bottom>>, s, j)>>

(* "# mergeLayer(%s, %s)" and "git checkout top && git merge -X ours bottom && git checkout bottom && git merge top" *)
mergeLayer(bottom, top, s, j) ==
    <<Line("label", "#", <<bottom, top>>, s, j),
      Line("mergeLayer", "g", <<top, bottom, bottom, top>>, s, j)>>

--------------------------------------------------------------------------
(* Inputs *)

SeqUpTo(S, n) == UNION {[1..k -> S] : k \in 0..n}

RECURSIVE Rep(_, _)
Rep(block, n) == IF n = 0 THEN <<>> ELSE block \o Rep(block, n - 1)

Hex(block) == Rep(block, (2 * IdBytes) \div Len(block))

Rand1 == Hex(<<"0", "1", "2", "3", "4", "5", "6", "7">>)

NameA == <<"a">>

NameB == <<"b">>

Dev == <<"d", "e", "v">>

UrlU == <<"u">>

Documentation == <<"d", "o", "c", "u", "m", "e", "n", "t", "a", "t", "i", "o", "n">>

Sources(names, branches, pairs, maxMaps) ==
    [Name : names, Owner : {Empty}, Url : {UrlU}, Branch : branches,
     Mapping : SeqUpTo(pairs, maxMaps)]

NoSource == [Name |-> Empty, Owner |-> Empty, Url |-> Empty, Branch |-> Empty, Mapping |-> <<>>]

--------------------------------------------------------------------------
(* main() *)

(* buildid := RandomString()[:4]; the header and "set -e" are printed *)
Start ==
    /\ pc = "start"
    /\ \E r \in RandomString :
          /\ buildid' = SubSeq(r, 1, BuildIdLen)
          /\ out' = out \o header(SubSeq(r, 1, BuildIdLen))
    /\ pc' = "open"
    /\ UNCHANGED <<pool, upstream, m, si, mi, src, stderr>>
    /\ UNCHANGED shvars

(* the first RandomString() panics: io.ReadFull(rand.Reader, id) failed.  *)
(* Nothing was printed yet; the runtime writes the panic to standard error *)
StartPanic ==
    /\ pc = "start"
    /\ pc' = "panic"
    /\ stderr' = Append(stderr, "panic")
    /\ UNCHANGED <<pool, upstream, buildid, m, si, mi, src, out>>
    /\ UNCHANGED shvars

(* os.Open("UPSTREAM") fails: log.Fatal(err) prints err and exits with status 1 *)
OpenFail ==
    /\ pc = "open"
    /\ pc' = "fatal"
    /\ stderr' = Append(stderr, "open")
    /\ UNCHANGED <<pool, upstream, buildid, m, si, mi, src, out>>
    /\ UNCHANGED shvars

OpenOk ==
    /\ pc = "open"
    /\ pc' = "read"
    /\ UNCHANGED <<pool, upstream, buildid, m, si, mi, src, out, stderr>>
    /\ UNCHANGED shvars

(* ioutil.ReadAll(f) fails and the error is only logged: the run goes on *)
ReadFailLogged ==
    /\ pc = "read"
    /\ pc' = "decode"
    /\ stderr' = Append(stderr, "read")
    /\ UNCHANGED <<pool, upstream, buildid, m, si, mi, src, out>>
    /\ UNCHANGED shvars

(* ioutil.ReadAll(f) fails: log.Fatal *)
ReadFail ==
    /\ pc = "read"
    /\ pc' = "fatal"
    /\ stderr' = Append(stderr, "read")
    /\ UNCHANGED <<pool, upstream, buildid, m, si, mi, src, out>>
    /\ UNCHANGED shvars

ReadOk ==
    /\ pc = "read"
    /\ pc' = "decode"
    /\ UNCHANGED <<pool, upstream, buildid, m, si, mi, src, out, stderr>>
    /\ UNCHANGED shvars

(* toml.Decode fails: log.Fatal *)
DecodeFail ==
    /\ pc = "decode"
    /\ pc' = "fatal"
    /\ stderr' = Append(stderr, "decode")
    /\ UNCHANGED <<pool, upstream, buildid, m, si, mi, src, out>>
    /\ UNCHANGED shvars

(* toml.Decode fills m *)
DecodeOk ==
    /\ pc = "decode"
    /\ m' = upstream
    /\ si' = 1
    /\ pc' = "defaults"
    /\ UNCHANGED <<pool, upstream, buildid, mi, src, out, stderr>>
    /\ UNCHANGED shvars

(* the defaults a source gets: branch "master", mapping "/" to "/" *)
WithDefaults(source) ==
    [source EXCEPT
        !.Branch = IF source.Branch = Empty THEN Master ELSE source.Branch,
        !.Mapping = IF Len(source.Mapping) = 0 THEN <<<<Slash, Slash>>>>
                    ELSE source.Mapping]

(* one iteration of "for _, src := range m.Sources": src is a copy of the   *)
(* element, and it is the copy that the defaults are assigned to; m.Sources *)
(* is not written.                                                          *)
ApplyDefaults ==
    /\ pc = "defaults"
    /\ si <= Len(m)
    /\ src' = WithDefaults(m[si])
    /\ si' = si + 1
    /\ UNCHANGED <<pc, pool, upstream, buildid, m, mi, out, stderr>>
    /\ UNCHANGED shvars

(* the loop is over: "# Loaded %d sources" *)
Loaded ==
    /\ pc = "defaults"
    /\ si > Len(m)
    /\ out' = out \o loaded(Len(m))
    /\ si' = 1
    /\ pc' = "fetch"
    /\ UNCHANGED <<pool, upstream, buildid, m, mi, src, stderr>>
    /\ UNCHANGED shvars

(* what one iteration of the fetch loop prints for the source at index s *)
FetchLines(source, bid, s) ==
    IF source.Name = Empty THEN skipNotice(s) ELSE fetch(source, bid, s)

(* one iteration of the fetch loop *)
FetchStep ==
    /\ pc = "fetch"
    /\ si <= Len(m)
    /\ out' = out \o FetchLines(m[si], buildid, si)
    /\ si' = si + 1
    /\ UNCHANGED <<pc, pool, upstream, buildid, m, mi, src, stderr>>
    /\ UNCHANGED shvars

(* the fetch loop is over: dupBranch("master", dstBranch(buildid)) *)
DupDst ==
    /\ pc = "fetch"
    /\ si > Len(m)
    /\ out' = out \o dupBranch(Master, dstBranch(buildid), 0, 0)
    /\ si' = 1
    /\ mi' = 1
    /\ pc' = "map"
    /\ UNCHANGED <<pool, upstream, buildid, m, src, stderr>>
    /\ UNCHANGED shvars

(* the zoom steps in the other order: zoomOut printed before zoomIn *)
ZoomLinesSwapped(from, to, branch, tmp, s, j) ==
    (IF to # Empty THEN zoomOut(branch, to, tmp, s, j) ELSE <<>>)
    \o (IF from # Slash THEN zoomIn(branch, from, s, j) ELSE <<>>)

(* the zoom steps of one mapping, zoomIn before zoomOut *)
ZoomLines(from, to, branch, tmp, s, j) ==
    (IF from # Slash THEN zoomIn(branch, from, s, j) ELSE <<>>)
    \o (IF to # Empty THEN zoomOut(branch, to, tmp, s, j) ELSE <<>>)

(* what the body of the mapping loop prints for mapping j (mapid j - 1) of source s *)
MapLines(source, bid, tmp, s, j) ==
    LET from == Clean(source.Mapping[j][1])
        to == Clean(source.Mapping[j][2])
        branch == mapBranch(source, bid, j - 1)
    IN dupBranch(baseBranch(source, bid), branch, s, j)
       \o ZoomLines(from, to, branch, tmp, s, j)
       \o mergeLayer(dstBranch(bid), branch, s, j)

(* one iteration of the inner loop; zoomOut takes tmp := RandomString()[:8] *)
MapStep ==
    /\ pc = "map"
    /\ si <= Len(m)
    /\ mi <= Len(m[si].Mapping)
    /\ \E r \in RandomString :
          out' = out \o MapLines(m[si], buildid, SubSeq(r, 1, TmpLen), si, mi)
    /\ mi' = mi + 1
    /\ UNCHANGED <<pc, pool, upstream, buildid, m, si, src, stderr>>
    /\ UNCHANGED shvars

(* what the body of the mapping loop has printed for mapping j when       *)
(* zoomOut calls RandomString(): the lines up to the "# zoomOut" label    *)
PanicLines(source, bid, s, j) ==
    LET from == Clean(source.Mapping[j][1])
        to == Clean(source.Mapping[j][2])
        branch == mapBranch(source, bid, j - 1)
    IN dupBranch(baseBranch(source, bid), branch, s, j)
       \o (IF from # Slash THEN zoomIn(branch, from, s, j) ELSE <<>>)
       \o <<Line("label", "#", <<branch, to>>, s, j)>>

(* RandomString() panics inside zoomOut: the run ends in the middle of a   *)
(* mapping, after the label of the zoom-out was printed                    *)
MapPanic ==
    /\ pc = "map"
    /\ si <= Len(m)
    /\ mi <= Len(m[si].Mapping)
    /\ Clean(m[si].Mapping[mi][2]) # Empty
    /\ out' = out \o PanicLines(m[si], buildid, si, mi)
    /\ pc' = "panic"
    /\ stderr' = Append(stderr, "panic")
    /\ UNCHANGED <<pool, upstream, buildid, m, si, mi, src>>
    /\ UNCHANGED shvars

(* the inner loop is over: the outer loop moves to the next source *)
NextSource ==
    /\ pc = "map"
    /\ si <= Len(m)
    /\ mi > Len(m[si].Mapping)
    /\ si' = si + 1
    /\ mi' = 1
    /\ UNCHANGED <<pc, pool, upstream, buildid, m, src, out, stderr>>
    /\ UNCHANGED shvars

(* main returns *)
Finish ==
    /\ pc = "map"
    /\ si > Len(m)
    /\ pc' = "done"
    /\ UNCHANGED <<pool, upstream, buildid, m, si, mi, src, out, stderr>>
    /\ UNCHANGED shvars

Generate ==
    \/ Start
    \/ StartPanic
    \/ OpenFail
    \/ OpenOk
    \/ ReadFail
    \/ ReadOk
    \/ DecodeFail
    \/ DecodeOk
    \/ ApplyDefaults
    \/ Loaded
    \/ FetchStep
    \/ DupDst
    \/ MapStep
    \/ MapPanic
    \/ NextSource
    \/ Finish

--------------------------------------------------------------------------
(* the line is the duplicate of master to the destination branch *)
IsDupDst(l) ==
    /\ l.kind = "dupBranch"
    /\ l.args = <<dstBranch(buildid), dstBranch(buildid), Master>>

(* sequence s begins with sequence pre: a string with a string, a path *)
(* with a directory                                                     *)
HasPrefix(s, pre) == Len(s) >= Len(pre) /\ SubSeq(s, 1, Len(pre)) = pre

--------------------------------------------------------------------------
(* The repository the emitted git commands work on.  A tree is a set of  *)
(* files, a file a path (a sequence of names) with a content; a commit   *)
(* is a tree with its parent commits and what else identifies it         *)
(* (author, date, message); a branch names a commit.                     *)

Absent == "absent"

Conflict == "conflict"

File(path, blob) == [path |-> path, blob |-> blob]

Paths(tree) == {e.path : e \in tree}

BlobAt(tree, p) ==
    IF p \in Paths(tree) THEN (CHOOSE e \in tree : e.path = p).blob ELSE Absent

Commit(tree, parents, by) == [tree |-> tree, parents |-> parents, by |-> by]

RECURSIVE Ancestors(_)
Ancestors(c) == {c} \cup UNION {Ancestors(p) : p \in c.parents}

(* the best common ancestors of two commits *)
MergeBases(a, b) ==
    LET common == Ancestors(a) \cap Ancestors(b)
    IN {c \in common : \A d \in common : d = c \/ c \notin Ancestors(d)}

(* the tree a three-way merge starts from: empty for unrelated histories *)
BaseTree(a, b) ==
    IF MergeBases(a, b) = {} THEN {} ELSE (CHOOSE c \in MergeBases(a, b) : TRUE).tree

(* "-X theirs": a conflicting file takes the content of the merged-in side *)
FavouredTheirs(o, t) == t

(* "-X ours": a conflicting file takes the content of the checked-out side *)
Favoured(o, t) == o

(* the content a three-way merge gives one path: o on the checked-out    *)
(* side, t on the merged-in side, b in the merge base                    *)
MergedBlob(o, t, b, favour) ==
    IF o = t THEN o
    ELSE IF b = o THEN t
    ELSE IF b = t THEN o
    ELSE IF o # Absent /\ t # Absent /\ favour THEN Favoured(o, t)
    ELSE Conflict

MergeTrees(ours, theirs, base, favour) ==
    LET all == Paths(ours) \cup Paths(theirs) \cup Paths(base)
        merged == {File(p, MergedBlob(BlobAt(ours, p), BlobAt(theirs, p), BlobAt(base, p), favour)) :
                     p \in all}
    IN {e \in merged : e.blob # Absent}

(* a path of the tree is both a file and a directory *)
Clash(tree) ==
    \E e, f \in tree : e.path # f.path /\ HasPrefix(f.path, e.path)

(* git merge of commit theirs into the checked-out commit ours:          *)
(* "Already up to date", a fast-forward, or a merge commit; the merge    *)
(* stops on a conflict it cannot resolve                                 *)
Merge(ours, theirs, favour) ==
    IF theirs \in Ancestors(ours) THEN [ok |-> TRUE, commit |-> ours]
    ELSE IF ours \in Ancestors(theirs) THEN [ok |-> TRUE, commit |-> theirs]
    ELSE LET t == MergeTrees(ours.tree, theirs.tree, BaseTree(ours, theirs), favour)
         IN [ok |-> /\ Cardinality(MergeBases(ours, theirs)) <= 1
                    /\ \A e \in t : e.blob # Conflict
                    /\ ~Clash(t),
             commit |-> Commit(t, {ours, theirs}, "merge")]

(* the names of a directory argument, "." and empty names dropped *)
DirSegs(dir) == SelectSeq(Split(dir), LAMBDA e : e # Empty /\ e # Dot)

(* the directory argument names a place inside the checkout that git     *)
(* filter-branch works in                                                *)
Inside(dir) ==
    /\ dir # Empty
    /\ dir[1] # "/"
    /\ DirSegs(dir) = <<>> \/ DirSegs(dir)[1] # DotDot

(* --subdirectory-filter: the files under the directory, with the        *)
(* directory as the new root                                             *)
SubTree(tree, segs) ==
    {File(SubSeq(e.path, Len(segs) + 1, Len(e.path)), e.blob) :
        e \in {x \in tree : HasPrefix(x.path, segs) /\ Len(x.path) > Len(segs)}}

(* the history --subdirectory-filter leaves: commits without the         *)
(* directory and commits that do not change it are left out              *)
RECURSIVE RewriteIn(_, _)
RewriteIn(c, segs) ==
    LET ps == UNION {RewriteIn(p, segs) : p \in c.parents}
        t == SubTree(c.tree, segs)
    IN IF t = {} \/ (ps # {} /\ \A p \in ps : p.tree = t) THEN ps
       ELSE {Commit(t, ps, c.by)}

(* the entries "*" expands to: the top-level names without a leading "." *)
Staged(tree) == {e \in tree : e.path[1][1] # "."}

(* the tree filter of zoomOut can run in a checkout of the tree:         *)
(* "mkdir .tmp" needs the name to be free, "mv * .tmp/" needs an entry   *)
TreeFilterOk(tree, tmp) ==
    /\ \A e \in tree : e.path[1] # Dot \o tmp
    /\ Staged(tree) # {}

(* the tree the filter of zoomOut leaves in the checkout: the staged     *)
(* entries are under dir if dir is inside the checkout and gone if not   *)
TreeFilter(tree, dir) ==
    (tree \ Staged(tree))
    \cup (IF Inside(dir)
          THEN {File(DirSegs(dir) \o e.path, e.blob) : e \in Staged(tree)}
          ELSE {})

(* the files the filter of zoomOut moves out of the checkout *)
MovedOut(tree, dir) ==
    IF Inside(dir) THEN {} ELSE {[dir |-> dir, path |-> e.path] : e \in Staged(tree)}

RECURSIVE RewriteOut(_, _)
RewriteOut(c, dir) ==
    Commit(TreeFilter(c.tree, dir), {RewriteOut(p, dir) : p \in c.parents}, c.by)

(* The repositories of the model: master of the local repository, and    *)
(* what the remotes at three URLs hold: two repositories with a history  *)
(* of their own and a fork of master that deleted a file.                *)
NameF == <<"f">>

NameG == <<"g">>

NameH == <<"h">>

DotX == <<".", "x">>

NameC == <<"c">>

UrlV == <<"v">>

UrlW == <<"w">>

MasterTip == Commit({File(<<NameF>>, "m"), File(<<NameG>>, "m")}, {}, "master")

RepoU ==
    Commit({File(<<NameF>>, "u"), File(<<NameA, NameF>>, "u"), File(<<DotX>>, "u")},
           {Commit({File(<<NameF>>, "u0")}, {}, "u0")}, "u")

RepoV == Commit({File(<<NameF>>, "v"), File(<<NameH>>, "v")}, {}, "v")

RepoW == Commit({File(<<NameF>>, "m")}, {MasterTip}, "w")

Remotes == {UrlU, UrlV, UrlW}

(* the commit at the HEAD (the branch master) of the remote at url *)
RemoteHead(url) ==
    CASE url = UrlU -> RepoU
      [] url = UrlV -> RepoV
      [] OTHER -> RepoW

(* a branch of that name can be created: git keeps branches as files, so *)
(* a/b cannot exist next to a                                            *)
RefFree(b) ==
    \A r \in DOMAIN refs : ~HasPrefix(r, b \o Slash) /\ ~HasPrefix(b, r \o Slash)

SetRef(b, c) == [x \in DOMAIN refs \cup {b} |-> IF x = b THEN c ELSE refs[x]]

DelRef(b) == [x \in DOMAIN refs \ {b} |-> refs[x]]

(* "$(git rev-parse --show-toplevel)" of the line gave the top level *)
AtTopLevel ==
    \E k \in DOMAIN ran : ran[k].ip = ip /\ ran[k].cmd = "git rev-parse" /\ ran[k].ok

Unchanged == [ok |-> TRUE, refs |-> refs, head |-> head, outside |-> outside]

Refused == [ok |-> FALSE, refs |-> refs, head |-> head, outside |-> outside]

Moved(r) == [ok |-> TRUE, refs |-> r, head |-> head, outside |-> outside]

(* git merge of branch other into the checked-out branch *)
GitMerge(other, favour) ==
    IF head \in DOMAIN refs /\ other \in DOMAIN refs /\ Merge(refs[head], refs[other], favour).ok
    THEN Moved(SetRef(head, Merge(refs[head], refs[other], favour).commit))
    ELSE Refused

GitCheckout(b) ==
    IF b \in DOMAIN refs THEN [Unchanged EXCEPT !.head = b] ELSE Refused

(* What sub-command cmd of a line does to the repository, and whether it *)
(* can succeed at all.                                                   *)
(*   git fetch -f url src:dst  refuses the checked-out branch; an empty  *)
(*                             src is the remote HEAD                     *)
(*   git branch -D dst         needs dst to exist and not be checked out *)
(*   git branch -f dst src     needs src, refuses the checked-out branch *)
(*   git filter-branch         needs the branch and the top level; a     *)
(*                             subdirectory filter needs a directory     *)
(*                             inside the repository that some commit    *)
(*                             has, a tree filter must run in all commits *)
Git(line, cmd) ==
    CASE cmd = "git fetch" ->
           IF /\ line.args[1] \in Remotes
              /\ line.args[2] \in {Empty, Master}
              /\ line.args[3] # head
              /\ RefFree(line.args[3])
           THEN Moved(SetRef(line.args[3], RemoteHead(line.args[1])))
           ELSE Refused
      [] cmd = "git branch -D" ->
           IF line.args[1] \in DOMAIN refs /\ line.args[1] # head
           THEN Moved(DelRef(line.args[1]))
           ELSE Refused
      [] cmd = "git branch -f" ->
           IF /\ line.args[3] \in DOMAIN refs
              /\ line.args[2] # head
              /\ RefFree(line.args[2])
           THEN Moved(SetRef(line.args[2], refs[line.args[3]]))
           ELSE Refused
      [] cmd = "git filter-branch --subdirectory-filter" ->
           IF /\ AtTopLevel
              /\ line.args[2] \in DOMAIN refs
              /\ Inside(line.args[1])
              /\ Cardinality(RewriteIn(refs[line.args[2]], DirSegs(line.args[1]))) = 1
           THEN Moved(SetRef(line.args[2],
                        CHOOSE c \in RewriteIn(refs[line.args[2]], DirSegs(line.args[1])) : TRUE))
           ELSE Refused
      [] cmd = "git filter-branch --tree-filter" ->
           IF /\ AtTopLevel
              /\ line.args[7] \in DOMAIN refs
              /\ \A c \in Ancestors(refs[line.args[7]]) : TreeFilterOk(c.tree, line.args[1])
           THEN [ok |-> TRUE,
                 refs |-> SetRef(line.args[7], RewriteOut(refs[line.args[7]], line.args[3])),
                 head |-> head,
                 outside |-> outside \cup UNION {MovedOut(c.tree, line.args[3]) :
                                                    c \in Ancestors(refs[line.args[7]])}]
           ELSE Refused
      [] cmd = "git checkout top" -> GitCheckout(line.args[1])
      [] cmd = "git merge -X ours" -> GitMerge(line.args[2], TRUE)
      [] cmd = "git checkout bottom" -> GitCheckout(line.args[3])
      [] cmd = "git merge" -> GitMerge(line.args[4], FALSE)
      [] cmd = "skipping" -> Refused
      [] OTHER -> Unchanged

-----------------------------------------------------------------------------------------------------------------------------------------------
(* The shell that executes the emitted script.  A command line is an AND   *)
(* list (c1 && c2 && ...), possibly inside a subshell ( ... ).  A          *)
(* sub-command is plain, guarded (c || true) or a command substitution     *)
(* $(c) whose status is discarded by the command that takes its output.    *)

Cmd(c, role) == [cmd |-> c, role |-> role]

List(subshell, cmds) == [subshell |-> subshell, list |-> cmds]

(* the command structure of each line the generator prints *)
Shape(line) ==
    IF line.lead = "#" THEN List(FALSE, <<>>)
    ELSE CASE line.kind = "strict" -> List(FALSE, <<Cmd("set -e", "plain")>>)
           [] line.kind = "skip" -> List(FALSE, <<Cmd("skipping", "plain")>>)
           [] line.kind = "fetch" -> List(FALSE, <<Cmd("git fetch", "plain")>>)
           [] line.kind = "dupBranch" ->
                List(FALSE, <<Cmd("git branch -D", "guarded"), Cmd("git branch -f", "plain")>>)
           [] line.kind = "zoomIn" ->
                List(TRUE, <<Cmd("git rev-parse", "subst"), Cmd("cd", "plain"),
                             Cmd("git filter-branch --subdirectory-filter", "plain")>>)
           [] line.kind = "zoomOut" ->
                List(TRUE, <<Cmd("git rev-parse", "subst"), Cmd("cd", "plain"),
                             Cmd("git filter-branch --tree-filter", "plain")>>)
           [] line.kind = "mergeLayer" ->
                List(FALSE, <<Cmd("git checkout top", "plain"), Cmd("git merge -X ours", "plain"),
                              Cmd("git checkout bottom", "plain"), Cmd("git merge", "plain")>>)
           [] OTHER -> List(FALSE, <<>>)

(* What the shell does when sub-command k of a line fails.  With -e set    *)
(* the shell exits on a failing command, except that -e is ignored for     *)
(* every command of an AND list but the last: there the rest of the list   *)
(* is skipped and the list ends with a non-zero status.  A subshell that   *)
(* ends with a non-zero status is itself a failing command of its parent.  *)
OnFail(shape, k, e) ==
    LET c == shape.list[k]
    IN IF c.role # "plain" THEN "next"
       ELSE IF e /\ (k = Len(shape.list) \/ shape.subshell) THEN "exit"
       ELSE "skipline"

(* the emitted script is given to a shell *)
ShStart ==
    /\ pc \in {"done", "fatal", "panic"}
    /\ sh = "off"
    /\ sh' = "run"
    /\ ip' = 1
    /\ sub' = 1
    /\ UNCHANGED <<errexit, nfail, ran>>
    /\ UNCHANGED gitvars
    /\ UNCHANGED genvars

(* a comment line *)
ShComment ==
    /\ sh = "run"
    /\ ip <= Len(out)
    /\ Shape(out[ip]).list = <<>>
    /\ ip' = ip + 1
    /\ sub' = 1
    /\ UNCHANGED <<sh, errexit, nfail, ran>>
    /\ UNCHANGED gitvars
    /\ UNCHANGED genvars

(* the layers after sub-command cmd of the line succeeds: the duplicate  *)
(* of master is the bottom layer, the first merge of a merge-layer line  *)
(* adds the tree of the map branch of the line's mapping, and records if *)
(* that branch shares history with the destination branch                *)
Layered(line, cmd) ==
    IF cmd = "git merge -X ours"
    THEN LET map == refs[mapBranch(upstream[line.s], buildid, line.j - 1)]
             dst == refs[dstBranch(buildid)]
         IN Append(layers, [tree |-> map.tree, shared |-> MergeBases(map, dst) # {}])
    ELSE IF cmd = "git branch -f" /\ IsDupDst(line)
         THEN <<[tree |-> refs[Master].tree, shared |-> FALSE]>>
         ELSE layers

(* the sub-command the shell is at succeeds, if it can: "skipping" is no  *)
(* command of the system, git refuses what the repository does not allow *)
ShOk ==
    /\ sh = "run"
    /\ ip <= Len(out)
    /\ sub <= Len(Shape(out[ip]).list)
    /\ LET shape == Shape(out[ip])
           c == shape.list[sub]
           git == Git(out[ip], c.cmd)
       IN /\ git.ok
          /\ refs' = git.refs
          /\ head' = git.head
          /\ outside' = git.outside
          /\ snap' = IF sub = 1 THEN refs ELSE snap
          /\ layers' = Layered(out[ip], c.cmd)
          /\ ran' = Append(ran, [ip |-> ip, sub |-> sub, cmd |-> c.cmd, ok |-> TRUE])
          /\ errexit' = (errexit \/ c.cmd = "set -e")
          /\ IF sub < Len(shape.list)
             THEN ip' = ip /\ sub' = sub + 1
             ELSE ip' = ip + 1 /\ sub' = 1
    /\ UNCHANGED <<sh, nfail>>
    /\ UNCHANGED genvars

(* the sub-command the shell is at fails: because it cannot succeed, or  *)
(* for a reason outside the model (network, disk, permissions), which    *)
(* nfail counts                                                          *)
ShFail ==
    /\ sh = "run"
    /\ ip <= Len(out)
    /\ sub <= Len(Shape(out[ip]).list)
    /\ LET shape == Shape(out[ip])
           c == shape.list[sub]
           then == OnFail(shape, sub, errexit)
           can == Git(out[ip], c.cmd).ok
       IN /\ c.cmd # "set -e"
          /\ nfail < MaxFail \/ ~can
          /\ ran' = Append(ran, [ip |-> ip, sub |-> sub, cmd |-> c.cmd, ok |-> FALSE])
          /\ nfail' = IF can THEN nfail + 1 ELSE nfail
          /\ snap' = IF sub = 1 THEN refs ELSE snap
          /\ sh' = IF then = "exit" THEN "exit" ELSE "run"
          /\ IF then = "next" /\ sub < Len(shape.list)
             THEN ip' = ip /\ sub' = sub + 1
             ELSE IF then = "exit" THEN ip' = ip /\ sub' = sub
             ELSE ip' = ip + 1 /\ sub' = 1
    /\ UNCHANGED <<errexit, refs, head, outside, layers>>
    /\ UNCHANGED genvars

(* the end of the script *)
ShEnd ==
    /\ sh = "run"
    /\ ip > Len(out)
    /\ sh' = "end"
    /\ UNCHANGED <<errexit, ip, sub, nfail, ran>>
    /\ UNCHANGED gitvars
    /\ UNCHANGED genvars

Shell ==
    \/ ShStart
    \/ ShComment
    \/ ShOk
    \/ ShFail
    \/ ShEnd

-----------------------------------------------------------------------------------------------------------------------------------------------
(* Specifications *)

(* the state before main runs: the UPSTREAM file holds one of manifests,  *)
(* the local repository has master and one of heads checked out          *)
InitIn(manifests, heads) ==
    /\ pc = "start"
    /\ pool = {Rand1}
    /\ upstream \in manifests
    /\ buildid = Empty
    /\ m = <<>>
    /\ si = 0
    /\ mi = 0
    /\ src = NoSource
    /\ out = <<>>
    /\ stderr = <<>>
    /\ head \in heads
    /\ refs = [b \in {Master, head} |-> MasterTip]
    /\ outside = {}
    /\ snap = refs
    /\ layers = <<>>
    /\ sh = "off"
    /\ errexit = FALSE
    /\ ip = 0
    /\ sub = 0
    /\ nfail = 0
    /\ ran = <<>>

InitOf(manifests) == InitIn(manifests, {Master})

InitWith(names, branches, pairs, maxSources, maxMaps) ==
    InitOf(SeqUpTo(Sources(names, branches, pairs, maxMaps), maxSources))

PathA == Slash \o NameA

PathDoc == Slash \o Documentation

(* the generator, over manifests of named and unnamed sources, set and     *)
(* unset branches, empty and non-empty mapping lists                       *)
Pairs == {<<Slash, Slash>>, <<Slash, PathDoc>>, <<PathA, Empty>>}

Init == InitWith({Empty, NameA, NameB}, {Empty, Dev}, Pairs, MaxSources, MaxMaps)

Next == Generate

Spec == Init /\ [][Next]_vars

(* the generator over the manifests that decide the order of the steps *)
PairsOrder == {<<Slash, Slash>>, <<PathA, PathDoc>>}

InitOrder == InitWith({Empty, NameA}, {Empty}, PairsOrder, MaxSources, MaxMaps)

SpecOrder == InitOrder /\ [][Next]_vars

(* the generator over source names with "/", "." and ".." elements *)
NameDotA == <<".", "/", "a">>

NameUpDst == <<".", ".", "/", "d", "s", "t">>

NameUpMaster == <<".", ".", "/", ".", ".", "/", ".", ".", "/">> \o Master

NameA0 == <<"a", "/", "0">>

Names == {Empty, NameA, NameB, NameDotA, NameA0, NameUpDst, NameUpMaster}

InitNames == InitWith(Names, {Empty}, {<<Slash, PathDoc>>}, MaxSources, MaxMaps)

SpecNames == InitNames /\ [][Next]_vars

(* the generator over the spellings of the "from" and "to" paths *)
FromPaths == {Slash, <<"/", "/">>, <<"/", ".">>, Empty, Dot, PathA}

ToPaths == {Empty, Slash, PathDoc}

InitPaths == InitWith({Empty, NameA}, {Empty}, FromPaths \X ToPaths, PathSources, MaxMaps)

SpecPaths == InitPaths /\ [][Next]_vars

(* the generator over one mapping whose two paths are one path of up to   *)
(* MaxSegs segments: names, ".", ".." and empty segments, so with and      *)
(* without a leading, a trailing and a doubled separator                   *)
Segments == {NameA, NameB, Dot, DotDot, Empty}

RawPaths == {JoinSlash(q) : q \in SeqUpTo(Segments, MaxSegs)}

OneMapping(p, q) ==
    [Name |-> NameA, Owner |-> Empty, Url |-> UrlU, Branch |-> Empty, Mapping |-> <<<<p, q>>>>]

InitClean == InitOf({<<OneMapping(p, p)>> : p \in RawPaths})

SpecClean == InitClean /\ [][Next]_vars

(* the generator followed by a shell that runs what it printed *)
InitShell == InitWith({Empty, NameA}, {Empty}, {<<NameA, Documentation>>}, MaxSources, MaxMaps)

NextShell == Generate \/ Shell

SpecShell == InitShell /\ [][NextShell]_vars

(* the generator and the shell over manifests of one or two sources that  *)
(* name the three remotes: the whole tree merged as it is, the directory *)
(* "a" merged under "documentation", the whole tree sent to the absolute *)
(* path "/documentation", the whole tree merged under "documentation"    *)
SourceOf(name, url, mapping) ==
    [Name |-> name, Owner |-> Empty, Url |-> url, Branch |-> Empty, Mapping |-> mapping]

AsItIs == <<Slash, Empty>>

SubToDoc == <<NameA, Documentation>>

AllToDoc == <<Slash, PathDoc>>

AllUnderDoc == <<Slash, Documentation>>

LayerSources ==
    {SourceOf(NameA, UrlU, <<AsItIs>>),
     SourceOf(NameA, UrlU, <<SubToDoc, AsItIs>>),
     SourceOf(NameA, UrlU, <<AllToDoc>>),
     SourceOf(NameA, UrlU, <<AllUnderDoc>>),
     SourceOf(NameB, UrlV, <<AsItIs>>),
     SourceOf(NameC, UrlW, <<AsItIs>>)}

OneOrTwo(S) == {<<a>> : a \in S} \cup {<<a, b>> : a, b \in S}

InitGit == InitIn(OneOrTwo(LayerSources), {Master})

SpecGit == InitGit /\ [][NextShell]_vars

(* the generator and the shell with master or another branch of the      *)
(* user checked out, over sources named "a" and "../../../master"        *)
Work == <<"w", "o", "r", "k">>

HeadSources ==
    {SourceOf(NameA, UrlU, <<AsItIs>>),
     SourceOf(NameA, UrlV, <<AsItIs>>),
     SourceOf(NameUpMaster, UrlV, <<AsItIs>>)}

InitHead == InitIn(OneOrTwo(HeadSources), {Master, Work})

SpecHead == InitHead /\ [][NextShell]_vars

--------------------------------------------------------------------------
(* Reading the output *)

StepKinds == {"fetch", "dupBranch", "zoomIn", "zoomOut", "mergeLayer"}

PlanKinds == StepKinds \cup {"strict"}

(* the lines of kind k that iteration (s, j) printed *)
LinesAt(k, s, j) == {n \in DOMAIN out : out[n].kind = k /\ out[n].s = s /\ out[n].j = j}

(* the lines of kind k printed for source s *)
LinesFor(k, s) == {n \in DOMAIN out : out[n].kind = k /\ out[n].s = s}

(* the steps of the plan, in the order printed *)
Plan == SelectSeq(out, LAMBDA l : l.kind \in StepKinds)

IsDupMap(l) == l.kind = "dupBranch" /\ ~IsDupDst(l)

SameMapping(a, b) == a.s = b.s /\ a.j = b.j

Before(a, b) == a.s < b.s \/ (a.s = b.s /\ a.j < b.j)

--------------------------------------------------------------------------
(* C1: every named source whose branch is unset gets a fetch step that    *)
(* names "master" as the remote branch, with refspec master:<base branch>. *)
C1_UnsetBranchFetchesMaster ==
    pc = "done" =>
        \A s \in DOMAIN upstream :
            (upstream[s].Branch = Empty /\ upstream[s].Name # Empty) =>
                \E n \in LinesFor("fetch", s) :
                    /\ out[n].args[2] = Master
                    /\ out[n].args[3] = baseBranch(upstream[s], buildid)

(* C2: every named source whose mapping list is empty gets exactly one    *)
(* duplicate-to-map and one merge-layer step, those of mapping index 0 of  *)
(* the identity mapping "/" to "/", so its content is merged exactly once. *)
C2_EmptyMappingMergedOnce ==
    pc = "done" =>
        \A s \in DOMAIN upstream :
            (Len(upstream[s].Mapping) = 0 /\ upstream[s].Name # Empty) =>
                /\ Cardinality(LinesFor("dupBranch", s)) = 1
                /\ Cardinality(LinesFor("mergeLayer", s)) = 1
                /\ Cardinality(LinesAt("mergeLayer", s, 1)) = 1
                /\ LinesFor("zoomIn", s) = {}

(* C3: a source with an empty name gets no fetch step, no duplicate-to-map, *)
(* zoom-in, zoom-out or merge-layer step, whatever its mapping list holds,  *)
(* and one skip notice in its place.                                        *)
C3_UnnamedSourceHasNoSteps ==
    pc = "done" =>
        \A s \in DOMAIN upstream :
            upstream[s].Name = Empty =>
                /\ \A k \in StepKinds : LinesFor(k, s) = {}
                /\ Cardinality(LinesFor("skip", s)) = 1

(* C4: in the finished plan the steps are: the fetch steps of the named    *)
(* sources in manifest order, then one duplicate of master to the          *)
(* destination branch, then for each source in manifest order and each of  *)
(* its mappings in listed order one contiguous group duplicate-to-map,     *)
(* zoom-in (if any), zoom-out (if any), merge-layer.  No fetch follows the *)
(* duplicate-to-destination and no merge-layer precedes it; there are as   *)
(* many fetch steps as named sources and as many duplicate-to-map steps    *)
(* as merge-layer steps.                                                   *)
C4_StepOrder ==
    pc = "done" =>
        LET P == Plan
            D == {d \in DOMAIN P : IsDupDst(P[d])}
            named == {s \in DOMAIN upstream : upstream[s].Name # Empty}
            dupMaps == {k \in DOMAIN P : IsDupMap(P[k])}
            merges == {k \in DOMAIN P : P[k].kind = "mergeLayer"}
        IN /\ Cardinality(D) = 1
           /\ \A d \in D :
                /\ \A k \in 1..(d - 1) : P[k].kind = "fetch"
                /\ \A k \in (d + 1)..Len(P) : P[k].kind # "fetch"
                /\ \A k, h \in 1..(d - 1) : k < h => P[k].s < P[h].s
                /\ {P[k].s : k \in 1..(d - 1)} = named
                /\ d - 1 = Cardinality(named)
                /\ d < Len(P) => IsDupMap(P[d + 1])
                /\ \A k \in (d + 1)..Len(P) :
                     CASE IsDupMap(P[k]) ->
                            /\ k < Len(P)
                            /\ P[k + 1].kind \in {"zoomIn", "zoomOut", "mergeLayer"}
                            /\ SameMapping(P[k], P[k + 1])
                       [] P[k].kind = "zoomIn" ->
                            /\ IsDupMap(P[k - 1])
                            /\ k < Len(P)
                            /\ P[k + 1].kind \in {"zoomOut", "mergeLayer"}
                            /\ SameMapping(P[k], P[k + 1])
                       [] P[k].kind = "zoomOut" ->
                            /\ IsDupMap(P[k - 1]) \/ P[k - 1].kind = "zoomIn"
                            /\ k < Len(P)
                            /\ P[k + 1].kind = "mergeLayer"
                            /\ SameMapping(P[k], P[k + 1])
                       [] P[k].kind = "mergeLayer" ->
                            /\ P[k - 1].kind \in {"dupBranch", "zoomIn", "zoomOut"}
                            /\ SameMapping(P[k - 1], P[k])
                            /\ k < Len(P) => IsDupMap(P[k + 1]) /\ Before(P[k], P[k + 1])
                       [] OTHER -> FALSE
                /\ \A s \in DOMAIN upstream : \A j \in DOMAIN upstream[s].Mapping :
                     \E k \in (d + 1)..Len(P) :
                        /\ IsDupMap(P[k])
                        /\ P[k].s = s /\ P[k].j = j
                        /\ P[k].args[3] = baseBranch(upstream[s], buildid)
                        /\ P[k].args[1] = mapBranch(upstream[s], buildid, j - 1)
                /\ \A k \in dupMaps : P[k].s \in DOMAIN upstream /\ P[k].j \in DOMAIN upstream[P[k].s].Mapping
           /\ Cardinality(dupMaps) = Cardinality(merges)

(* C4's case: a finished plan of two named sources with one mapping each,  *)
(* one mapping with both zoom steps and one without a zoom-in               *)
C4_Witness ==
    /\ pc = "done"
    /\ Len(upstream) = 2
    /\ \A s \in DOMAIN upstream : upstream[s].Name # Empty /\ Len(upstream[s].Mapping) = 1
    /\ LinesAt("zoomIn", 1, 1) # {} /\ LinesAt("zoomOut", 1, 1) # {}
    /\ LinesAt("zoomIn", 2, 1) = {}
    /\ Cardinality({n \in DOMAIN out : out[n].kind = "mergeLayer"}) = 2
    /\ Cardinality({n \in DOMAIN out : out[n].kind = "fetch"}) = 2

(* C5: under "set -e" and the && chaining, a failing git sub-command of a  *)
(* fetch, dupBranch, zoomIn, zoomOut or mergeLayer step is the last        *)
(* sub-command the shell executes: no later sub-command of the line and no *)
(* later step runs.  Only the guarded "git branch -D ... || true" may fail *)
(* and be followed by more.                                                *)
C5_AbortsOnFirstFailure ==
    \A k \in DOMAIN ran :
        (/\ ~ran[k].ok
         /\ out[ran[k].ip].kind \in StepKinds
         /\ ran[k].cmd \notin {"git branch -D", "cd"}) => k = Len(ran)

(* C6: within one build id the branch names of two sources with different  *)
(* names never collide: their base branches differ, their map branches     *)
(* differ for all mapping indices, two mapping indices of one source give  *)
(* different map branches, and no base or map branch is the name of a      *)
(* branch of another purpose or the destination branch.                    *)
C6_BranchNamesInjective ==
    LET fetches == {n \in DOMAIN out : out[n].kind = "fetch"}
        dupMaps == {n \in DOMAIN out : IsDupMap(out[n])}
    IN /\ \A a, b \in fetches :
            upstream[out[a].s].Name # upstream[out[b].s].Name
                => out[a].args[3] # out[b].args[3]
       /\ \A a, b \in dupMaps :
            (upstream[out[a].s].Name # upstream[out[b].s].Name \/ out[a].j # out[b].j)
                => out[a].args[1] # out[b].args[1]
       /\ \A a \in fetches : \A b \in dupMaps : out[a].args[3] # out[b].args[1]
       /\ \A a \in fetches : out[a].args[3] # dstBranch(buildid)
       /\ \A b \in dupMaps : out[b].args[1] # dstBranch(buildid)

(* the branches a line of the script creates, overwrites, deletes,         *)
(* rewrites or merges into                                                 *)
Written(l) ==
    CASE l.kind = "fetch" -> {l.args[3]}
      [] l.kind = "dupBranch" -> {l.args[1], l.args[2]}
      [] l.kind = "zoomIn" -> {l.args[2]}
      [] l.kind = "zoomOut" -> {l.args[7]}
      [] l.kind = "mergeLayer" -> {l.args[1], l.args[3]}
      [] OTHER -> {}

(* C7: every branch a step of the script writes is nested under            *)
(* citizenkane/<buildid>/, so master and the branches of other build ids   *)
(* are never written.                                                      *)
C7_WritesOnlyInNamespace ==
    \A n \in DOMAIN out : \A b \in Written(out[n]) :
        HasPrefix(b, CitizenKane \o Slash \o buildid \o Slash)

(* C8: a mapping gets a zoom-out step if and only if its "to" path is not  *)
(* empty; a mapping from "/" to "/documentation" gets exactly one zoom-out *)
(* and it relocates the content under the repository-relative directory    *)
(* "documentation".                                                        *)
C8_ZoomOutIffToNonEmpty ==
    pc = "done" =>
        \A s \in DOMAIN upstream : \A j \in DOMAIN upstream[s].Mapping :
            /\ (LinesAt("zoomOut", s, j) # {}) <=> (upstream[s].Mapping[j][2] # Empty)
            /\ upstream[s].Mapping[j] = <<Slash, PathDoc>> =>
                  /\ Cardinality(LinesAt("zoomOut", s, j)) = 1
                  /\ \A n \in LinesAt("zoomOut", s, j) : out[n].args[3] = Documentation

(* the spellings of the repository root *)
RootSpellings == {Slash, <<"/", "/">>, <<"/", ".">>, Empty, Dot}

(* C9: a mapping gets a zoom-in step if and only if its "from" path is not *)
(* the repository root: "/", "//", "/.", "" and "." yield no zoom-in, any  *)
(* other path exactly one, printed before the zoom-out of the same mapping. *)
C9_ZoomInIffFromNotRoot ==
    pc = "done" =>
        \A s \in DOMAIN upstream : \A j \in DOMAIN upstream[s].Mapping :
            /\ upstream[s].Mapping[j][1] \in RootSpellings => LinesAt("zoomIn", s, j) = {}
            /\ upstream[s].Mapping[j][1] \notin RootSpellings =>
                  /\ Cardinality(LinesAt("zoomIn", s, j)) = 1
                  /\ \A a \in LinesAt("zoomIn", s, j) : \A b \in LinesAt("zoomOut", s, j) : a < b

(* C10: every line written to standard output is a command of the plan or  *)
(* a comment: every line that is not the strict-mode directive or a git    *)
(* step begins with "#".                                                   *)
C10_DiagnosticsAreComments ==
    \A n \in DOMAIN out : out[n].kind \in PlanKinds \/ out[n].lead = "#"

--------------------------------------------------------------------------
(* no step of the plan was printed *)
NoStepPrinted == \A n \in DOMAIN out : out[n].kind \notin StepKinds

(* the whole plan of the manifest was printed: the count of the sources,  *)
(* a fetch or a skip notice for every source, the duplicate of master and *)
(* a duplicate-to-map and a merge-layer for every mapping                 *)
PlanComplete ==
    /\ \E n \in DOMAIN out : out[n].kind = "loaded" /\ out[n].args = <<Itoa(Len(upstream))>>
    /\ \A s \in DOMAIN upstream :
          /\ Cardinality(LinesFor("skip", s)) + Cardinality(LinesFor("fetch", s)) = 1
          /\ \A j \in DOMAIN upstream[s].Mapping :
                /\ Cardinality(LinesAt("dupBranch", s, j)) = 1
                /\ Cardinality(LinesAt("mergeLayer", s, j)) = 1
    /\ Cardinality({n \in DOMAIN out : IsDupDst(out[n])}) = 1

(* the run ends by log.Fatal only for one of the given causes, with no    *)
(* step printed; a run that gets to the end of main printed its plan      *)
FatalOnlyFor(causes) ==
    /\ pc = "fatal" => Len(stderr) = 1 /\ stderr[1] \in causes /\ NoStepPrinted
    /\ pc \notin {"fatal", "panic"} => stderr = <<>>
    /\ pc = "done" => PlanComplete

--------------------------------------------------------------------------
(* the characters hex.EncodeToString writes *)
HexDigits == {"0", "1", "2", "3", "4", "5", "6", "7", "8", "9", "a", "b", "c", "d", "e", "f"}

(* the prefix of the names of purpose dir under build id bid *)
Under(bid, dir) == CitizenKane \o Slash \o bid \o Slash \o dir

(* C12: the build id is a hex token of length 8 chosen once per run: the  *)
(* header line names it, and every fetch target, the destination branch   *)
(* and every base and map branch name of the run carry that same id.      *)
C12_BuildIdOfLengthEight ==
    \A n \in DOMAIN out :
        /\ out[n].kind = "header" =>
              /\ out[n].args = <<buildid>>
              /\ Len(buildid) = 8
              /\ \A i \in DOMAIN buildid : buildid[i] \in HexDigits
        /\ out[n].kind = "fetch" => HasPrefix(out[n].args[3], Under(buildid, BaseDir))
        /\ IsDupMap(out[n]) =>
              /\ HasPrefix(out[n].args[1], Under(buildid, MapDir))
              /\ HasPrefix(out[n].args[3], Under(buildid, BaseDir))
        /\ out[n].kind = "mergeLayer" =>
              /\ out[n].args[2] = Under(buildid, DstDir)
              /\ HasPrefix(out[n].args[1], Under(buildid, MapDir))

--------------------------------------------------------------------------
SlashABSlash == <<"/", "a", "/", "b", "/">>

SlashAB == <<"/", "a", "/", "b">>

ASlashSlashBUp == <<"a", "/", "/", "b", "/", ".", ".">>

(* what cleaning is to make of the two paths the specification gives *)
CleansAsGiven(raw, cleaned) ==
    /\ raw = SlashABSlash => cleaned = SlashAB
    /\ raw = ASlashSlashBUp => cleaned = NameA

(* C13: the cleaned "from" and "to" paths the zoom steps were given are   *)
(* fixed points of path cleaning, clean(clean(p)) = clean(p), for every   *)
(* path p of up to MaxSegs segments drawn from names, ".", ".." and empty *)
(* segments; "/a/b/" was cleaned to "/a/b" and "a//b/.." to "a".          *)
C13_CleanIdempotent ==
    \A n \in DOMAIN out :
        /\ out[n].kind = "zoomIn" =>
              /\ Clean(out[n].args[1]) = out[n].args[1]
              /\ CleansAsGiven(upstream[out[n].s].Mapping[out[n].j][1], out[n].args[1])
        /\ out[n].kind = "zoomOut" =>
              /\ Clean(out[n].args[3]) = out[n].args[3]
              /\ CleansAsGiven(upstream[out[n].s].Mapping[out[n].j][2], out[n].args[3])

(* C13's case: the plan of a mapping of "a//b/.." is finished, its zoom   *)
(* steps were given a path that differs from the one in the manifest      *)
C13_Witness ==
    /\ pc = "done"
    /\ \E n \in DOMAIN out :
          /\ out[n].kind = "zoomIn"
          /\ upstream[out[n].s].Mapping[out[n].j][1] = ASlashSlashBUp
          /\ out[n].args[1] # ASlashSlashBUp
    /\ \E n \in DOMAIN out :
          /\ out[n].kind = "zoomOut"
          /\ upstream[out[n].s].Mapping[out[n].j][2] = ASlashSlashBUp

--------------------------------------------------------------------------
(* the local branches a line of the script needs to exist *)
Reads(l) ==
    CASE l.kind = "dupBranch" -> {l.args[3]}
      [] l.kind = "zoomIn" -> {l.args[2]}
      [] l.kind = "zoomOut" -> {l.args[7]}
      [] l.kind = "mergeLayer" -> {l.args[1], l.args[2]}
      [] OTHER -> {}

(* the local branches a line of the script brings into existence *)
Creates(l) ==
    CASE l.kind = "fetch" -> {l.args[3]}
      [] l.kind = "dupBranch" -> {l.args[2]}
      [] OTHER -> {}

(* the branch a zoom or merge-layer line works on *)
Worked(l) ==
    CASE l.kind = "zoomIn" -> l.args[2]
      [] l.kind = "zoomOut" -> l.args[7]
      [] OTHER -> l.args[1]

(* C16: every branch a step of the plan reads is master or was created by *)
(* an earlier step: the base branch of a duplicate-to-map by a fetch of   *)
(* the same source, the map branch of a zoom or merge-layer by the        *)
(* duplicate-to-map of the same mapping, the destination branch of a      *)
(* merge-layer by the duplicate-to-destination.                           *)
C16_ReadsAfterWrites ==
    \A n \in DOMAIN out :
        LET l == out[n]
            earlier == 1..(n - 1)
        IN /\ \A b \in Reads(l) : b = Master \/ \E k \in earlier : b \in Creates(out[k])
           /\ IsDupMap(l) =>
                 \E k \in earlier :
                    out[k].kind = "fetch" /\ out[k].s = l.s /\ out[k].args[3] = l.args[3]
           /\ l.kind \in {"zoomIn", "zoomOut", "mergeLayer"} =>
                 \E k \in earlier :
                    IsDupMap(out[k]) /\ SameMapping(out[k], l) /\ out[k].args[2] = Worked(l)
           /\ l.kind = "mergeLayer" =>
                 \E k \in earlier : IsDupDst(out[k]) /\ out[k].args[2] = l.args[2]

--------------------------------------------------------------------------
(* the shell has just run the last sub-command of a merge-layer line, so *)
(* all four sub-commands of the line succeeded                           *)
MergeLayerDone ==
    /\ ran # <<>>
    /\ ran[Len(ran)].cmd = "git merge"
    /\ ran[Len(ran)].ok

(* the two sides of a path differ and neither is what the merge base has *)
Conflicting(ours, theirs, p) ==
    LET o == BlobAt(ours.tree, p)
        t == BlobAt(theirs.tree, p)
        b == BlobAt(BaseTree(ours, theirs), p)
    IN o # Absent /\ t # Absent /\ o # t /\ b # o /\ b # t

(* one side of the merge deleted the path the merge base has *)
DeletedOnOneSide(ours, theirs, p) ==
    /\ p \in Paths(BaseTree(ours, theirs))
    /\ p \notin Paths(ours.tree) \/ p \notin Paths(theirs.tree)

(* after a merge-layer of map branch top into destination bottom: both   *)
(* branches are at one commit, bottom is checked out, conflicts went to  *)
(* what top had before the step                                          *)
MergedAlike(top, bottom) ==
    /\ refs[top] = refs[bottom]
    /\ head = bottom
    /\ \A p \in Paths(snap[top].tree) \cap Paths(snap[bottom].tree) :
          Conflicting(snap[top], snap[bottom], p) =>
              BlobAt(refs[bottom].tree, p) = BlobAt(snap[top].tree, p)

(* C14 as stated: a merge-layer step that ran with no failure leaves the *)
(* destination and the map branch at the same merged tree with the       *)
(* destination checked out; the tree holds every path either side had    *)
(* before the step, and a path on which the sides conflict has the       *)
(* content of the map branch.                                            *)
C14_MergeKeepsEveryPath ==
    MergeLayerDone =>
        LET l == out[ran[Len(ran)].ip]
        IN /\ MergedAlike(l.args[1], l.args[2])
           /\ Paths(snap[l.args[1]].tree) \cup Paths(snap[l.args[2]].tree)
                 \subseteq Paths(refs[l.args[2]].tree)

(* C14, amended: a merge-layer step that ran with no failure leaves the  *)
(* destination and the map branch at the same merged tree with the       *)
(* destination checked out; the tree holds every path either side had    *)
(* before the step except the paths of their merge base that one side    *)
(* deleted, and a path on which the sides conflict has the content of    *)
(* the map branch.                                                       *)
C14_MergeKeepsUndeletedPaths ==
    MergeLayerDone =>
        LET l == out[ran[Len(ran)].ip]
        IN /\ MergedAlike(l.args[1], l.args[2])
           /\ \A p \in Paths(snap[l.args[1]].tree) \cup Paths(snap[l.args[2]].tree) :
                 \/ p \in Paths(refs[l.args[2]].tree)
                 \/ DeletedOnOneSide(snap[l.args[1]], snap[l.args[2]], p)

(* C14's case: a merge-layer step has run and the two sides conflicted   *)
(* on a path and each had a path the other had not                       *)
C14_Witness ==
    /\ MergeLayerDone
    /\ LET l == out[ran[Len(ran)].ip]
           ours == snap[l.args[1]]
           theirs == snap[l.args[2]]
       IN /\ \E p \in Paths(ours.tree) : Conflicting(ours, theirs, p)
          /\ Paths(ours.tree) \ Paths(theirs.tree) # {}
          /\ Paths(theirs.tree) \ Paths(ours.tree) # {}

--------------------------------------------------------------------------
(* the shell has just run the filter-branch of a zoom-out line *)
ZoomOutDone ==
    /\ ran # <<>>
    /\ ran[Len(ran)].cmd = "git filter-branch --tree-filter"
    /\ ran[Len(ran)].ok

(* the tree with every file moved under the directory of names segs *)
Relocated(tree, segs) == {File(segs \o e.path, e.blob) : e \in tree}

(* C15: a zoom-out step with target t has rewritten every commit of the  *)
(* map branch so that the whole tree is under t inside the repository:   *)
(* every entry that was at p, hidden entries included, is at t/p and     *)
(* nowhere else, nothing was written outside the work tree, and the      *)
(* staging directory, named by a token of 8 hex characters that no tree  *)
(* entry has, is gone.                                                   *)
C15_ZoomOutRelocatesAll ==
    ZoomOutDone =>
        LET l == out[ran[Len(ran)].ip]
            tmp == l.args[1]
            t == DirSegs(l.args[3])
            old == Ancestors(snap[l.args[7]])
            new == Ancestors(refs[l.args[7]])
        IN /\ refs[l.args[7]].tree = Relocated(snap[l.args[7]].tree, t)
           /\ {c.tree : c \in new} = {Relocated(c.tree, t) : c \in old}
           /\ outside = {}
           /\ Len(tmp) = TmpLen
           /\ \A i \in DOMAIN tmp : tmp[i] \in HexDigits
           /\ \A c \in old \cup new : \A e \in c.tree : e.path[1] # Dot \o tmp

--------------------------------------------------------------------------
(* the script has run to its end and no step of it failed; that the      *)
(* branch "git branch -D ... || true" is to delete does not exist is no  *)
(* failure of the step                                                   *)
RanToEnd ==
    /\ sh = "end"
    /\ layers # <<>>
    /\ \A k \in DOMAIN ran : ran[k].ok \/ ran[k].cmd = "git branch -D"

(* the layers that supply path p, master being layer 1 *)
Supplying(p) == {k \in DOMAIN layers : p \in Paths(layers[k].tree)}

Last(S) == CHOOSE k \in S : \A h \in S : h <= k

(* the destination branch holds every path a layer supplies, with the    *)
(* content of the last layer that supplies it                            *)
LastLayerWins ==
    \A p \in UNION {Paths(layers[k].tree) : k \in DOMAIN layers} :
        BlobAt(refs[dstBranch(buildid)].tree, p) = BlobAt(layers[Last(Supplying(p))].tree, p)

(* C17 as stated: after the whole script has run with no failure, the    *)
(* destination branch holds, for every path that master or a mapping's   *)
(* layer supplies, the content of the last layer that supplies it, in    *)
(* the order master, then the mappings in manifest and listed order.     *)
C17_LastLayerWins == RanToEnd => LastLayerWins

(* no layer had a commit in common with the destination branch it was    *)
(* merged into                                                           *)
UnrelatedLayers == \A k \in DOMAIN layers : ~layers[k].shared

(* C17, amended: the same, for the runs in which no layer shares history *)
(* with the destination branch it is merged into.                        *)
C17_LastUnrelatedLayerWins == (RanToEnd /\ UnrelatedLayers) => LastLayerWins

(* C17's case: the script has run to its end, master and two layers of   *)
(* unrelated history supply one path with three contents, and a path is  *)
(* supplied by one layer only                                            *)
C17_Witness ==
    /\ RanToEnd
    /\ UnrelatedLayers
    /\ Len(layers) = 3
    /\ \E p \in Paths(layers[1].tree) :
          /\ Supplying(p) = {1, 2, 3}
          /\ BlobAt(layers[1].tree, p) # BlobAt(layers[2].tree, p)
          /\ BlobAt(layers[2].tree, p) # BlobAt(layers[3].tree, p)
          /\ BlobAt(layers[1].tree, p) # BlobAt(layers[3].tree, p)
    /\ \E p \in Paths(layers[2].tree) : Supplying(p) = {2}

--------------------------------------------------------------------------
(* the branch a fetch or dupBranch line deletes, creates or overwrites *)
Target(l) == IF l.kind = "fetch" THEN l.args[3] ELSE l.args[2]

(* the shell has left the merge-layer line it ran last and goes on *)
PastMergeLayer ==
    /\ ran # <<>>
    /\ out[ran[Len(ran)].ip].kind = "mergeLayer"
    /\ sh \in {"run", "end"}
    /\ ip > ran[Len(ran)].ip

(* C18: while the script runs, started with a branch outside             *)
(* citizenkane/<buildid>/ checked out, the fetch or dupBranch line the   *)
(* shell is at never targets the checked-out branch; when the shell has  *)
(* left a merge-layer line the destination branch is checked out, and so *)
(* it is when a script with a merge-layer line ends.                     *)
C18_CheckedOutBranchIsSafe ==
    /\ (sh = "run" /\ ip <= Len(out) /\ out[ip].kind \in {"fetch", "dupBranch"})
          => Target(out[ip]) # head
    /\ PastMergeLayer => head = dstBranch(buildid)
    /\ (sh = "end" /\ \E n \in DOMAIN out : out[n].kind = "mergeLayer")
          => head = dstBranch(buildid)

==========================================================================
